---- MODULE Spec2Model ----
(***************************************************************************)
(* Model of Shared.ts (FunctionHandler, uuid, realize) and of the          *)
(* transport documented in README.md (socket.io receiver loop, sendToOne). *)
(***************************************************************************)
EXTENDS Integers, Sequences, FiniteSets, TLC

VARIABLES
    registry,      \* FunctionHandler.registry: own properties, name -> {type, fn}
    registrations, \* history: the register(decl)(fn) calls executed so far
    loads,         \* number of load() calls made
    dispatches,    \* one record per FunctionHandler.call invocation
    now,           \* the caller's clock, Date.now()
    calls,         \* caller side: one record per call of a realize()d function
    listeners,     \* caller side: socket.once(token, ...) listeners not yet fired
    toServer,      \* 'fn' events in flight to the receiver
    toClient,      \* events in flight back to the caller
    wrappers       \* one record per invocation of a function made by realize()

vars == <<registry, registrations, loads, dispatches,
          now, calls, listeners, toServer, toClient, wrappers>>

(***************************************************************************)
(* Bounds                                                                  *)
(***************************************************************************)
MaxCalls == 2   \* invocations of FunctionHandler.call
MaxLoads == 1   \* invocations of FunctionHandler.load
MaxTicks == 1   \* clock ticks after StartTime
RandomSteps == 2 \* Math.random() is drawn from {k / RandomSteps : k < RandomSteps}
StartTime == 100 \* Date.now() at start; the clock keeps its number of digits
MaxReloads == 1 \* invocations of FunctionHandler.load after the first
MaxRegs == 3    \* register(decl)(fn) calls in all, where retained ones are made

(***************************************************************************)
(* JavaScript values                                                       *)
(***************************************************************************)
Undefined == [kind |-> "undefined"]
NaN == [kind |-> "NaN"]
Num(n) == [kind |-> "number", val |-> n]
Str(s) == [kind |-> "string", val |-> s]
Obj(a, b) == [kind |-> "object", a |-> a, b |-> b]
Arr(s) == [kind |-> "array", elems |-> s]
Err(m) == [kind |-> "Error", message |-> m]
TypeErr(m) == [kind |-> "TypeError", message |-> m]
None == [kind |-> "none"]

(***************************************************************************)
(* io-ts codecs                                                            *)
(***************************************************************************)
Left == [left |-> TRUE]
Right(v) == [left |-> FALSE, value |-> v]

\* t.string, t.number, t.any, t.type({a: t.number, b: t.number}), and a
\* codec that changes the value it decodes (a number read from a string)
IoDecode(type, u) ==
    CASE type = "string" -> IF u.kind = "string" THEN Right(u) ELSE Left
      [] type = "number" -> IF u.kind = "number" THEN Right(u) ELSE Left
      [] type = "any" -> Right(u)
      [] type = "ab" ->
            IF u.kind = "object" /\ u.a.kind = "number" /\ u.b.kind = "number"
            THEN Right(u) ELSE Left
      [] type = "NumberFromString" -> IF u = Str("1") THEN Right(Num(1)) ELSE Left

\* as[i] of a JavaScript array: undefined beyond its length
At(as, i) == IF i <= Len(as) THEN as[i] ELSE Undefined

PayloadTypes == <<"string", "string", "any">>

\* Payload = t.tuple([t.string, t.string, t.any]); Payload.decode(msg).
\* The tuple codec requires an array, decodes as[i] with the i-th codec for
\* each of its three codecs, and rejects components beyond the third.
PayloadDecode(msg) ==
    IF msg.kind # "array" THEN Left
    ELSE LET as == msg.elems IN
         IF \/ \E i \in 1..Len(PayloadTypes) : IoDecode(PayloadTypes[i], At(as, i)).left
            \/ Len(as) > Len(PayloadTypes)
         THEN Left
         ELSE Right([i \in 1..Len(PayloadTypes) |-> At(as, i)])

(***************************************************************************)
(* Declarations, handlers, loaders                                         *)
(***************************************************************************)
\* A NamedFnDef is a function with a .name that returns FN {i, o}
Add == [name |-> "Add", i |-> "ab", o |-> "number"]
ConvertToNumber == [name |-> "ConvertToNumber", i |-> "string", o |-> "number"]
AddAny == [name |-> "Add", i |-> "any", o |-> "number"]
ToStringDecl == [name |-> "toString", i |-> "string", o |-> "string"]

ParseNumber == [name |-> "ConvertToNumber", i |-> "NumberFromString", o |-> "number"]

Decls == {Add, ConvertToNumber, AddAny, ToStringDecl, ParseNumber}

\* what type() returns
FN(decl) == [i |-> decl.i, o |-> decl.o]

Handlers == {"add", "parseFloat", "reject"}

Causes == {Err("boom"), Err("Handler missing for DoesNotExist")}

Resolved(v) == [settled |-> "resolved", value |-> v]
Rejected(c) == [settled |-> "rejected", value |-> c]

\* How the promise returned by handler fn(ctx, input) can settle
HandlerOutcomes(fn, ctx, input) ==
    CASE fn = "add" ->
            {Resolved(IF input.kind = "object" /\ input.a.kind = "number"
                                               /\ input.b.kind = "number"
                      THEN Num(input.a.val + input.b.val) ELSE NaN)}
      [] fn = "parseFloat" ->
            {Resolved(IF input \in {Str("1"), Num(1)} THEN Num(1) ELSE NaN)}
      [] fn = "reject" -> {Rejected(c) : c \in Causes}

\* A loader is the sequence of register(decl)(fn) calls it makes
Loaders == {
    <<[decl |-> ConvertToNumber, fn |-> "parseFloat"], [decl |-> Add, fn |-> "add"]>>,
    <<[decl |-> Add, fn |-> "reject"], [decl |-> AddAny, fn |-> "add"]>>,
    <<[decl |-> ToStringDecl, fn |-> "reject"], [decl |-> Add, fn |-> "add"]>>,
    <<>> }

\* what a register function kept from a loader is called with later on
LateRegs == {[decl |-> Add, fn |-> "reject"]}

\* the loaders of later load() calls
Reloaders == {
    <<[decl |-> Add, fn |-> "reject"], [decl |-> AddAny, fn |-> "add"]>>,
    <<[decl |-> ParseNumber, fn |-> "parseFloat"]>> }

(***************************************************************************)
(* Registry: a plain object {} whose prototype is Object.prototype         *)
(***************************************************************************)
ObjectPrototypeNames == {"toString", "constructor"}

\* a property inherited from Object.prototype: truthy, and not a registry entry
Inherited(name) == [kind |-> "inherited", name |-> name]

\* a lookup that returns the entry stored under another key
Get_other(reg, name) ==
    IF name \in DOMAIN reg
    THEN IF \E n \in DOMAIN reg : n # name
         THEN reg[CHOOSE n \in DOMAIN reg : n # name]
         ELSE reg[name]
    ELSE IF name \in ObjectPrototypeNames THEN Inherited(name)
    ELSE Undefined

\* this.registry[name]
Get(reg, name) ==
    IF name \in DOMAIN reg THEN reg[name]
    ELSE IF name \in ObjectPrototypeNames THEN Inherited(name)
    ELSE Undefined

\* a register that refuses to replace an entry that is already present
Register_keepfirst(reg, r) ==
    IF r.decl.name \in DOMAIN reg THEN reg
    ELSE [n \in DOMAIN reg \cup {r.decl.name} |->
            IF n = r.decl.name
            THEN [kind |-> "entry", type |-> FN(r.decl), fn |-> r.fn]
            ELSE reg[n]]

\* this.registry[type.name] = { type: type(), fn }
Register(reg, r) ==
    [n \in DOMAIN reg \cup {r.decl.name} |->
        IF n = r.decl.name THEN [kind |-> "entry", type |-> FN(r.decl), fn |-> r.fn]
        ELSE reg[n]]

RECURSIVE RunLoader(_, _)
RunLoader(reg, loader) ==
    IF loader = <<>> THEN reg
    ELSE RunLoader(Register(reg, Head(loader)), Tail(loader))

(***************************************************************************)
(* FunctionHandler.call                                                    *)
(***************************************************************************)
Idle == [status |-> "idle", ctx |-> None, msg |-> None, steps |-> <<>>,
         token |-> None, invoked |-> <<>>, settle |-> None, outcome |-> None]

\* call() rejects with e, having performed steps
Threw(ctx, msg, steps, e) ==
    [status |-> "threw", ctx |-> ctx, msg |-> msg, steps |-> steps,
     token |-> None, invoked |-> <<>>, settle |-> None, outcome |-> e]

\* the handler is started without the isLeft() check on the decoded input
InvokeStep_unchecked(handler, ctx, msg, name, token, args) ==
    [status |-> "awaiting", ctx |-> ctx, msg |-> msg,
     steps |-> <<"decode", "lookup", "validate", "invoke">>,
     token |-> token,
     invoked |-> <<[fn |-> handler.fn, ctx |-> ctx, input |-> args]>>,
     settle |-> None, outcome |-> None]

\* a dispatcher that reads the empty token as "no response wanted" and
\* returns without waiting for the handler's result
InvokeStep_sentinel(handler, ctx, msg, name, token, args) ==
    LET input == IoDecode(handler.type.i, args) IN
    IF input.left
    THEN Threw(ctx, msg, <<"decode", "lookup", "validate">>,
               Err("Invalid input for " \o name \o ": left"))
    ELSE IF token = ""
    THEN [status |-> "returned", ctx |-> ctx, msg |-> msg,
          steps |-> <<"decode", "lookup", "validate", "invoke">>,
          token |-> token,
          invoked |-> <<[fn |-> handler.fn, ctx |-> ctx, input |-> input.value]>>,
          settle |-> None, outcome |-> [token |-> token, result |-> Undefined]]
    ELSE [status |-> "awaiting", ctx |-> ctx, msg |-> msg,
          steps |-> <<"decode", "lookup", "validate", "invoke">>,
          token |-> token,
          invoked |-> <<[fn |-> handler.fn, ctx |-> ctx, input |-> input.value]>>,
          settle |-> None, outcome |-> None]

\* the handler is handed the raw payload instead of the decoded input
InvokeStep_raw(handler, ctx, msg, name, token, args) ==
    LET input == IoDecode(handler.type.i, args) IN
    IF input.left
    THEN Threw(ctx, msg, <<"decode", "lookup", "validate">>,
               Err("Invalid input for " \o name \o ": left"))
    ELSE [status |-> "awaiting", ctx |-> ctx, msg |-> msg,
          steps |-> <<"decode", "lookup", "validate", "invoke">>,
          token |-> token,
          invoked |-> <<[fn |-> handler.fn, ctx |-> ctx, input |-> args]>>,
          settle |-> None, outcome |-> None]

\* const input = handler.type.i.decode(args); if (input.isLeft()) throw ...;
\* handler.fn(context, input.value) is started and call() suspends at the await
InvokeStep(handler, ctx, msg, name, token, args) ==
    LET input == IoDecode(handler.type.i, args) IN
    IF input.left
    THEN Threw(ctx, msg, <<"decode", "lookup", "validate">>,
               Err("Invalid input for " \o name \o ": left"))
    ELSE [status |-> "awaiting", ctx |-> ctx, msg |-> msg,
          steps |-> <<"decode", "lookup", "validate", "invoke">>,
          token |-> token,
          invoked |-> <<[fn |-> handler.fn, ctx |-> ctx, input |-> input.value]>>,
          settle |-> None, outcome |-> None]

\* const handler = this.registry[name]; if (!handler) throw ...
LookupStep(reg, ctx, msg, name, token, args) ==
    LET handler == Get(reg, name) IN
    IF handler = Undefined
    THEN Threw(ctx, msg, <<"decode", "lookup">>, Err("Handler missing for " \o name))
    ELSE IF handler.kind # "entry"
    THEN \* handler.type is undefined, so reading handler.type.i throws
         Threw(ctx, msg, <<"decode", "lookup", "validate">>,
               TypeErr("Cannot read property 'i' of undefined"))
    ELSE InvokeStep(handler, ctx, msg, name, token, args)

\* The synchronous part of call(): from Payload.decode(msg) up to the await
CallSync(reg, ctx, msg) ==
    LET payload == PayloadDecode(msg) IN
    IF payload.left
    THEN Threw(ctx, msg, <<"decode">>, Err("Payload error: left"))
    ELSE LookupStep(reg, ctx, msg, payload.value[1].val, payload.value[2].val,
                    payload.value[3])

\* a continuation that returns a token of its own instead of the envelope's
CallResume_notoken(d, settle) ==
    IF settle.settled = "resolved"
    THEN [d EXCEPT !.status = "returned", !.settle = settle,
                   !.outcome = [token |-> "", result |-> settle.value]]
    ELSE [d EXCEPT !.status = "threw", !.settle = settle, !.outcome = settle.value]

\* a continuation that catches the handler's rejection and returns normally
CallResume_swallow(d, settle) ==
    IF settle.settled = "resolved"
    THEN [d EXCEPT !.status = "returned", !.settle = settle,
                   !.outcome = [token |-> d.token, result |-> settle.value]]
    ELSE [d EXCEPT !.status = "returned", !.settle = settle,
                   !.outcome = [token |-> d.token, result |-> Undefined]]

\* The continuation of the await: return { token, result }, or the rejection
\* of the handler's promise is rethrown as it is
CallResume(d, settle) ==
    IF settle.settled = "resolved"
    THEN [d EXCEPT !.status = "returned", !.settle = settle,
                   !.outcome = [token |-> d.token, result |-> settle.value]]
    ELSE [d EXCEPT !.status = "threw", !.settle = settle, !.outcome = settle.value]

(***************************************************************************)
(* Inputs                                                                  *)
(***************************************************************************)
Ctxs == {[socket |-> "socket1", io |-> "io"]}
EnvNames == {"Add", "ConvertToNumber", "toString", "DoesNotExist"}
Tokens == {"", "tok1"}
Args == {Obj(Num(1), Num(2)), Obj(Str("x"), Num(2)), Str("1")}

\* the envelopes dispatched while the registry is still being changed
LateMsgs == {Arr(<<Str("Add"), Str("tok1"), Obj(Num(1), Num(2))>>),
             Arr(<<Str("ConvertToNumber"), Str(""), Str("1")>>),
             Arr(<<Str("Add"), Str("tok1"), Str("1")>>),
             Arr(<<Str("DoesNotExist"), Str("tok1"), Str("1")>>),
             Arr(<<Num(1), Str("tok1"), Str("1")>>)}

RawMsgs ==
    {Arr(<<Str(n), Str(t), a>>) : n \in EnvNames, t \in Tokens, a \in Args}
    \cup {Arr(<<Str("Add"), Str("tok1")>>),
          Arr(<<Str("Add")>>),
          Arr(<<Num(1), Str("tok1"), Str("1")>>),
          Arr(<<Str("Add"), Num(1), Obj(Num(1), Num(2))>>),
          Arr(<<Str("Add"), Str("tok1"), Obj(Num(1), Num(2)), Num(1)>>),
          Str("Add"),
          Undefined}

(***************************************************************************)
(* Making function calls: uuid, realize, and the README's sendToOne        *)
(***************************************************************************)
DigitChars == <<"0", "1", "2", "3", "4", "5", "6", "7", "8", "9",
                "a", "b", "c", "d", "e", "f">>

\* Number.prototype.toString(radix) of a non-negative integer
RECURSIVE NumToString(_, _)
NumToString(n, radix) ==
    IF n < radix THEN DigitChars[n + 1]
    ELSE NumToString(n \div radix, radix) \o DigitChars[(n % radix) + 1]

SaltScale == 256

\* Math.round(Math.random() * 256), for Math.random() = k / RandomSteps
Salt(k) == (2 * k * SaltScale + RandomSteps) \div (2 * RandomSteps)

\* uuid(): Date.now().toString() + Math.round(Math.random() * 256).toString(16)
uuid(time, k) == NumToString(time, 10) \o NumToString(Salt(k), 16)

\* Payload.encode: the codecs of the tuple are t.string, t.string and t.any,
\* whose encoders are the identity
PayloadEncode(tuple) == Arr(tuple)

NoCall == [status |-> "idle", name |-> "", input |-> None, token |-> "",
           value |-> None]

\* what the caller passes to the realize()d functions
Inputs(decl) == {a \in Args : ~IoDecode(decl.i, a).left}

\* messages another sender on the same connection may emit as 'fn'
RemoteMsgs == {Arr(<<Str("Add"), Str(""), Obj(Num(1), Num(2))>>),
               Arr(<<Str("ConvertToNumber"), Str("tok1"), Str("1")>>)}

\* the loader of README.md's Server.ts
ServerLoader ==
    <<[decl |-> ConvertToNumber, fn |-> "parseFloat"], [decl |-> Add, fn |-> "add"]>>

\* every 'fn' event emitted so far can be given a dispatch record
CanEmit ==
    Len(toServer) + Cardinality({d \in 1..MaxCalls : dispatches[d].status # "idle"})
        < MaxCalls

(***************************************************************************)
(* realize(decl)(send): the caller wrapper over a caller-supplied Sender   *)
(***************************************************************************)
\* Sender functions a caller may supply: one that takes a token and waits
\* for a response, one that ignores responses, one whose transport fails
Senders == {"sendToOne", "sendIgnoringResponse", "sendFailing"}

\* how often send calls the makeToken it is given
SenderTokens(send) == IF send = "sendToOne" THEN 1 ELSE 0

\* how the promise returned by send can settle
SendOutcomes(send) ==
    CASE send = "sendToOne" -> {Resolved(Num(3)), Resolved(Str("x")), Resolved(Undefined)}
      [] send = "sendIgnoringResponse" -> {Resolved(Undefined)}
      [] send = "sendFailing" -> {Rejected(Err("disconnected"))}

NoWrapper == [status |-> "idle", decl |-> None, send |-> "", input |-> None,
              sent |-> <<>>, made |-> 0, settle |-> None, value |-> None]

\* a wrapper that takes the token itself and hands send a constant function
Realize_eager(decl, send, input) ==
    [status |-> "awaiting", decl |-> decl, send |-> send, input |-> input,
     sent |-> <<[name |-> decl.name, makeToken |-> "uuid", input |-> input]>>,
     made |-> 1 + SenderTokens(send), settle |-> None, value |-> None]

\* async (input) => (await send(decl.name, uuid, input)), up to the await:
\* send is called with the declaration's name, uuid itself and the input
Realize(decl, send, input) ==
    [status |-> "awaiting", decl |-> decl, send |-> send, input |-> input,
     sent |-> <<[name |-> decl.name, makeToken |-> "uuid", input |-> input]>>,
     made |-> SenderTokens(send), settle |-> None, value |-> None]

\* a wrapper that decodes what send resolved to with the declaration's o
RealizeSettle_validating(w, settle) ==
    IF settle.settled = "resolved" /\ ~IoDecode(w.decl.o, settle.value).left
    THEN [w EXCEPT !.status = "resolved", !.settle = settle, !.value = settle.value]
    ELSE [w EXCEPT !.status = "rejected", !.settle = settle,
                   !.value = IF settle.settled = "resolved"
                             THEN Err("Invalid output") ELSE settle.value]

\* the continuation of the await: the wrapper settles as send's promise did
RealizeSettle(w, settle) ==
    IF settle.settled = "resolved"
    THEN [w EXCEPT !.status = "resolved", !.settle = settle, !.value = settle.value]
    ELSE [w EXCEPT !.status = "rejected", !.settle = settle, !.value = settle.value]

(***************************************************************************)
(* Actions                                                                 *)
(***************************************************************************)
Init ==
    /\ registry = <<>>
    /\ registrations = <<>>
    /\ loads = 0
    /\ dispatches = [d \in 1..MaxCalls |-> Idle]
    /\ now = StartTime
    /\ calls = [c \in 1..MaxCalls |-> NoCall]
    /\ listeners = {}
    /\ toServer = <<>>
    /\ toClient = <<>>
    /\ wrappers = [c \in 1..MaxCalls |-> NoWrapper]

\* handler.load(loader)
load(loader) ==
    /\ loads < MaxLoads
    /\ loads' = loads + 1
    /\ registry' = RunLoader(registry, loader)
    /\ registrations' = registrations \o loader
    /\ UNCHANGED <<wrappers, dispatches, now, calls, listeners, toServer, toClient>>

\* handler.load(loader), called again later on
loadAgain(loader) ==
    /\ loads >= 1
    /\ loads < 1 + MaxReloads
    /\ loads' = loads + 1
    /\ registry' = RunLoader(registry, loader)
    /\ registrations' = registrations \o loader
    /\ UNCHANGED <<wrappers, dispatches, now, calls, listeners, toServer, toClient>>

\* register(decl)(fn), on a register function that a loader kept
registerLater(r) ==
    /\ loads >= 1
    /\ Len(registrations) < MaxRegs
    /\ registry' = Register(registry, r)
    /\ registrations' = Append(registrations, r)
    /\ UNCHANGED <<wrappers, loads, dispatches, now, calls, listeners, toServer, toClient>>

\* a call() that deletes the entry it dispatched to
call_evict(d, ctx, msg) ==
    /\ dispatches[d].status = "idle"
    /\ \A e \in 1..(d - 1) : dispatches[e].status # "idle"
    /\ dispatches' = [dispatches EXCEPT ![d] = CallSync(registry, ctx, msg)]
    /\ registry' = IF dispatches'[d].status = "awaiting"
                   THEN [n \in DOMAIN registry \ {msg.elems[1].val} |-> registry[n]]
                   ELSE registry
    /\ UNCHANGED <<wrappers, registrations, loads, now, calls, listeners, toServer, toClient>>

\* a call() that awaits the decoding of the envelope, and so suspends before
\* it has looked the handler up
call_deferred(d, ctx, msg) ==
    /\ dispatches[d].status = "idle"
    /\ \A e \in 1..(d - 1) : dispatches[e].status # "idle"
    /\ dispatches' = [dispatches EXCEPT ![d] =
          IF PayloadDecode(msg).left THEN CallSync(registry, ctx, msg)
          ELSE [status |-> "awaiting", ctx |-> ctx, msg |-> msg, steps |-> <<"decode">>,
                token |-> msg.elems[2].val, invoked |-> <<>>, settle |-> None,
                outcome |-> None]]
    /\ UNCHANGED <<wrappers, registry, registrations, loads,
                   now, calls, listeners, toServer, toClient>>

\* handler.call(ctx, msg), up to its suspension or synchronous failure
call(d, ctx, msg) ==
    /\ dispatches[d].status = "idle"
    /\ \A e \in 1..(d - 1) : dispatches[e].status # "idle"
    /\ dispatches' = [dispatches EXCEPT ![d] = CallSync(registry, ctx, msg)]
    /\ UNCHANGED <<wrappers, registry, registrations, loads,
                   now, calls, listeners, toServer, toClient>>

\* a call() that keeps the token in a field shared by all dispatches, so that
\* it returns the token of the dispatch suspended last
resume_shared(d) ==
    /\ dispatches[d].status = "awaiting"
    /\ LET last == CHOOSE e \in 1..MaxCalls :
                      /\ dispatches[e].status = "awaiting"
                      /\ \A f \in (e + 1)..MaxCalls : dispatches[f].status # "awaiting"
       IN \E s \in HandlerOutcomes(dispatches[d].invoked[1].fn,
                                   dispatches[d].invoked[1].ctx,
                                   dispatches[d].invoked[1].input) :
             dispatches' = [dispatches EXCEPT ![d] =
                 CallResume([dispatches[d] EXCEPT !.token = dispatches[last].token], s)]
    /\ UNCHANGED <<wrappers, registry, registrations, loads,
                   now, calls, listeners, toServer, toClient>>

\* the handler's promise settles and call() resumes after its await
resume(d) ==
    /\ dispatches[d].status = "awaiting"
    /\ \E s \in HandlerOutcomes(dispatches[d].invoked[1].fn,
                                dispatches[d].invoked[1].ctx,
                                dispatches[d].invoked[1].input) :
          dispatches' = [dispatches EXCEPT ![d] = CallResume(dispatches[d], s)]
    /\ UNCHANGED <<wrappers, registry, registrations, loads,
                   now, calls, listeners, toServer, toClient>>

\* Date.now() advances
tick ==
    /\ now < StartTime + MaxTicks
    /\ now' = now + 1
    /\ UNCHANGED <<wrappers, registry, registrations, loads, dispatches,
                   calls, listeners, toServer, toClient>>

\* realize(decl)(sendToOne)(input): send(decl.name, uuid, input), where
\* sendToOne takes a token, emits the envelope and waits for the token's event
sendToOne(c, decl, input, k) ==
    /\ calls[c].status = "idle"
    /\ \A e \in 1..(c - 1) : calls[e].status # "idle"
    /\ CanEmit
    /\ LET token == uuid(now, k) IN
       /\ toServer' = Append(toServer,
                             PayloadEncode(<<Str(decl.name), Str(token), input>>))
       /\ IF token # ""
          THEN /\ calls' = [calls EXCEPT ![c] =
                              [status |-> "pending", name |-> decl.name,
                               input |-> input, token |-> token, value |-> None]]
               /\ listeners' = listeners \cup {[event |-> token, call |-> c]}
          ELSE /\ calls' = [calls EXCEPT ![c] =
                              [status |-> "resolved", name |-> decl.name,
                               input |-> input, token |-> token,
                               value |-> Undefined]]
               /\ UNCHANGED listeners
    /\ UNCHANGED <<wrappers, registry, registrations, loads, dispatches, now, toClient>>

\* another sender emits an 'fn' event on the connection
remoteEmit(msg) ==
    /\ CanEmit
    /\ toServer' = Append(toServer, msg)
    /\ UNCHANGED <<wrappers, registry, registrations, loads, dispatches,
                   now, calls, listeners, toClient>>

\* socket.on('fn', async (msg) => { ... await handler.call({ socket, io }, msg)
onFn(d, ctx) ==
    /\ toServer # <<>>
    /\ dispatches[d].status = "idle"
    /\ \A e \in 1..(d - 1) : dispatches[e].status # "idle"
    /\ dispatches' = [dispatches EXCEPT ![d] = CallSync(registry, ctx, Head(toServer))]
    /\ toServer' = Tail(toServer)
    /\ UNCHANGED <<wrappers, registry, registrations, loads, now, calls, listeners, toClient>>

\* ... the rest of the 'fn' listener, once handler.call has settled:
\* if (token === '') socket.emit(token, result)
Respond(d, out) ==
    IF d.status = "returned" /\ d.outcome.token = ""
    THEN Append(out, [event |-> d.outcome.token, data |-> d.outcome.result])
    ELSE out

onFnResume(d) ==
    /\ dispatches[d].status = "awaiting"
    /\ \E s \in HandlerOutcomes(dispatches[d].invoked[1].fn,
                                dispatches[d].invoked[1].ctx,
                                dispatches[d].invoked[1].input) :
          /\ dispatches' = [dispatches EXCEPT ![d] = CallResume(dispatches[d], s)]
          /\ toClient' = Respond(CallResume(dispatches[d], s), toClient)
    /\ UNCHANGED <<wrappers, registry, registrations, loads, now, calls, listeners, toServer>>

\* A receiver that follows the transport contract: when token != "", the
\* dispatch result is delivered back keyed by that token; when token == "",
\* it is discarded
RespondByToken(d, out) ==
    IF d.status = "returned" /\ d.outcome.token # ""
    THEN Append(out, [event |-> d.outcome.token, data |-> d.outcome.result])
    ELSE out

onFnResumeRouted(d) ==
    /\ dispatches[d].status = "awaiting"
    /\ \E s \in HandlerOutcomes(dispatches[d].invoked[1].fn,
                                dispatches[d].invoked[1].ctx,
                                dispatches[d].invoked[1].input) :
          /\ dispatches' = [dispatches EXCEPT ![d] = CallResume(dispatches[d], s)]
          /\ toClient' = RespondByToken(CallResume(dispatches[d], s), toClient)
    /\ UNCHANGED <<wrappers, registry, registrations, loads, now, calls, listeners,
                   toServer>>

\* an event reaches the caller's socket: its once() listeners fire and are removed
deliver ==
    /\ toClient # <<>>
    /\ LET m == Head(toClient)
           fired == {l \in listeners : l.event = m.event}
       IN /\ calls' = [c \in DOMAIN calls |->
                          IF \E l \in fired : l.call = c
                          THEN [calls[c] EXCEPT !.status = "resolved", !.value = m.data]
                          ELSE calls[c]]
          /\ listeners' = listeners \ fired
    /\ toClient' = Tail(toClient)
    /\ UNCHANGED <<wrappers, registry, registrations, loads, dispatches, now, toServer>>

\* realize(decl)(send)(input) is invoked
invoke(c, decl, send, input) ==
    /\ wrappers[c].status = "idle"
    /\ \A e \in 1..(c - 1) : wrappers[e].status # "idle"
    /\ wrappers' = [wrappers EXCEPT ![c] = Realize(decl, send, input)]
    /\ UNCHANGED <<registry, registrations, loads, dispatches,
                   now, calls, listeners, toServer, toClient>>

\* the promise returned by send settles and the wrapper resumes
settle(c) ==
    /\ wrappers[c].status = "awaiting"
    /\ \E s \in SendOutcomes(wrappers[c].send) :
          wrappers' = [wrappers EXCEPT ![c] = RealizeSettle(wrappers[c], s)]
    /\ UNCHANGED <<registry, registrations, loads, dispatches,
                   now, calls, listeners, toServer, toClient>>

Load == \E l \in Loaders : load(l)
Call == \E d \in 1..MaxCalls, c \in Ctxs, m \in RawMsgs : call(d, c, m)
Resume == \E d \in 1..MaxCalls : resume(d)

Next == Load \/ Call \/ Resume

Spec == Init /\ [][Next]_vars

(***************************************************************************)
(* The README's transport: Server.ts has loaded its handlers               *)
(***************************************************************************)
InitTransport ==
    /\ registry = RunLoader(<<>>, ServerLoader)
    /\ registrations = ServerLoader
    /\ loads = 1
    /\ dispatches = [d \in 1..MaxCalls |-> Idle]
    /\ now = StartTime
    /\ calls = [c \in 1..MaxCalls |-> NoCall]
    /\ listeners = {}
    /\ toServer = <<>>
    /\ toClient = <<>>
    /\ wrappers = [c \in 1..MaxCalls |-> NoWrapper]

Tick == tick
SendToOne ==
    \E c \in 1..MaxCalls, decl \in {Add, ConvertToNumber}, k \in 0..(RandomSteps - 1) :
        \E input \in Inputs(decl) : sendToOne(c, decl, input, k)
RemoteEmit == \E m \in RemoteMsgs : remoteEmit(m)
OnFn == \E d \in 1..MaxCalls, c \in Ctxs : onFn(d, c)
OnFnResume == \E d \in 1..MaxCalls : onFnResume(d)
Deliver == deliver

NextTransport == Tick \/ SendToOne \/ RemoteEmit \/ OnFn \/ OnFnResume \/ Deliver

SpecTransport == InitTransport /\ [][NextTransport]_vars

\* handlers terminate and the transport delivers what was emitted
SpecTransportFair ==
    /\ SpecTransport
    /\ WF_vars(OnFn) /\ WF_vars(OnFnResume) /\ WF_vars(Deliver)

(***************************************************************************)
(* sendToOne against a receiver that routes responses by token             *)
(***************************************************************************)
OnFnResumeRouted == \E d \in 1..MaxCalls : onFnResumeRouted(d)

NextSender == Tick \/ SendToOne \/ OnFn \/ OnFnResumeRouted \/ Deliver

SpecSender == InitTransport /\ [][NextSender]_vars

(***************************************************************************)
(* A FunctionHandler whose registry is still changed while it dispatches   *)
(***************************************************************************)
LoadAgain == \E l \in Reloaders : loadAgain(l)
RegisterLater == \E r \in LateRegs : registerLater(r)
CallLate == \E d \in 1..MaxCalls, c \in Ctxs, m \in LateMsgs : call(d, c, m)

NextLate == Load \/ LoadAgain \/ RegisterLater \/ CallLate \/ Resume

SpecLate == Init /\ [][NextLate]_vars

(***************************************************************************)
(* The caller wrapper alone, over any of the senders                       *)
(***************************************************************************)
Invoke ==
    \E c \in 1..MaxCalls, decl \in {Add, ConvertToNumber}, send \in Senders :
        \E input \in Inputs(decl) : invoke(c, decl, send, input)
Settle == \E c \in 1..MaxCalls : settle(c)

NextRealize == Invoke \/ Settle

SpecRealize == Init /\ [][NextRealize]_vars

(***************************************************************************)
(* Properties                                                              *)
(***************************************************************************)
Ids == 1..MaxCalls

\* a raw value that is a 3-element tuple (string, string, any)
WellFormed(msg) ==
    /\ msg.kind = "array"
    /\ Len(msg.elems) = 3
    /\ msg.elems[1].kind = "string"
    /\ msg.elems[2].kind = "string"

NameOf(msg) == msg.elems[1].val
TokenOf(msg) == msg.elems[2].val
ArgsOf(msg) == msg.elems[3]

\* call() is invoked for d in this step
Starts(d) == dispatches[d].status = "idle" /\ dispatches'[d].status # "idle"

DistinctNames ==
    \A i, j \in DOMAIN registrations :
        i # j => registrations[i].decl.name # registrations[j].decl.name

RegisteredNames == {registrations[i].decl.name : i \in DOMAIN registrations}

\* C1: with pairwise distinct registered names, a well-formed envelope for N
\* whose payload passes N's input validator makes call() invoke the handler
\* registered under N, once, and no other handler; a dispatch never invokes
\* anything after that.
C1_Step ==
    \A d \in Ids :
        /\ (Starts(d) /\ DistinctNames /\ WellFormed(dispatches'[d].msg)) =>
              \A i \in DOMAIN registrations :
                 LET r == registrations[i] IN
                 (/\ r.decl.name = NameOf(dispatches'[d].msg)
                  /\ ~IoDecode(r.decl.i, ArgsOf(dispatches'[d].msg)).left)
                 => /\ Len(dispatches'[d].invoked) = 1
                    /\ dispatches'[d].invoked[1].fn = r.fn
        /\ dispatches[d].status # "idle" =>
              dispatches'[d].invoked = dispatches[d].invoked

C1_ExactHandler == [][C1_Step]_vars

C1_Witness ==
    \E d \in Ids :
        /\ dispatches[d].status = "returned"
        /\ DistinctNames
        /\ WellFormed(dispatches[d].msg)
        /\ NameOf(dispatches[d].msg) = "Add"
        /\ dispatches[d].invoked[1].fn = "add"
        /\ \E i \in DOMAIN registrations :
              registrations[i].decl.name # "Add" /\ registrations[i].fn # "add"

\* C2: a dispatch that succeeds returns {token, result} with the token string
\* of its inbound envelope (the empty string included) and the value its
\* handler resolved to.
C2_TokenEchoed ==
    \A d \in Ids :
        dispatches[d].status = "returned" =>
            /\ dispatches[d].outcome.token = dispatches[d].msg.elems[2].val
            /\ dispatches[d].settle = Resolved(dispatches[d].outcome.result)
            /\ Resolved(dispatches[d].outcome.result) \in
                  HandlerOutcomes(dispatches[d].invoked[1].fn,
                                  dispatches[d].invoked[1].ctx,
                                  dispatches[d].invoked[1].input)

C2_Witness ==
    /\ \E d \in Ids :
          /\ dispatches[d].msg = Arr(<<Str("Add"), Str("tok1"), Obj(Num(1), Num(2))>>)
          /\ dispatches[d].outcome = [token |-> "tok1", result |-> Num(3)]
    /\ \E d \in Ids :
          /\ dispatches[d].status = "returned"
          /\ TokenOf(dispatches[d].msg) = ""
          /\ dispatches[d].outcome.token = ""

\* C3: an envelope that passes envelope validation and whose name was never
\* registered fails with the unknown-function error for that name, right
\* after the lookup: no input validation, no handler.
C3_UnknownFunction ==
    \A d \in Ids :
        (/\ dispatches[d].status # "idle"
         /\ WellFormed(dispatches[d].msg)
         /\ NameOf(dispatches[d].msg) \notin RegisteredNames)
        => /\ dispatches[d].status = "threw"
           /\ dispatches[d].outcome =
                 Err("Handler missing for " \o NameOf(dispatches[d].msg))
           /\ dispatches[d].steps = <<"decode", "lookup">>
           /\ dispatches[d].invoked = <<>>

\* C4: a raw value that is not a 3-element tuple (string, string, any) fails
\* with the envelope-decode error before any registry lookup, and no handler
\* is invoked.
C4_MalformedEnvelope ==
    \A d \in Ids :
        (dispatches[d].status # "idle" /\ ~WellFormed(dispatches[d].msg))
        => /\ dispatches[d].status = "threw"
           /\ dispatches[d].outcome = Err("Payload error: left")
           /\ dispatches[d].steps = <<"decode">>
           /\ dispatches[d].invoked = <<>>

\* C5: a well-formed envelope whose name is registered and whose payload
\* fails the registered input validator fails with the input-decode error
\* naming the function, and no handler is invoked, then or later.
C5_Step ==
    \A d \in Ids :
        /\ (/\ Starts(d)
            /\ WellFormed(dispatches'[d].msg)
            /\ NameOf(dispatches'[d].msg) \in DOMAIN registry
            /\ IoDecode(registry[NameOf(dispatches'[d].msg)].type.i,
                        ArgsOf(dispatches'[d].msg)).left)
           => /\ dispatches'[d].status = "threw"
              /\ dispatches'[d].outcome =
                    Err("Invalid input for " \o NameOf(dispatches'[d].msg) \o ": left")
              /\ dispatches'[d].invoked = <<>>
        /\ dispatches[d].status = "threw" => dispatches'[d] = dispatches[d]

C5_InvalidInput == [][C5_Step]_vars

C5_Witness ==
    \E d \in Ids :
        /\ dispatches[d].msg = Arr(<<Str("Add"), Str("tok1"), Obj(Str("x"), Num(2))>>)
        /\ dispatches[d].outcome = Err("Invalid input for Add: left")
        /\ dispatches[d].invoked = <<>>
        /\ "Add" \in DOMAIN registry

\* C6: when the invoked handler fails, call() fails with the handler's cause:
\* no {token, result} is returned for that dispatch, the handler is not
\* invoked again, and a result is returned only if the handler resolved.
C6_HandlerFailure ==
    \A d \in Ids :
        /\ Len(dispatches[d].invoked) <= 1
        /\ (Len(dispatches[d].invoked) = 1
            /\ dispatches[d].status \in {"returned", "threw"}) =>
              LET outs == HandlerOutcomes(dispatches[d].invoked[1].fn,
                                          dispatches[d].invoked[1].ctx,
                                          dispatches[d].invoked[1].input)
              IN /\ dispatches[d].status = "threw" =>
                       /\ Rejected(dispatches[d].outcome) \in outs
                       /\ dispatches[d].settle = Rejected(dispatches[d].outcome)
                 /\ dispatches[d].status = "returned" =>
                       \E s \in outs : s.settled = "resolved"

C6_Witness ==
    \E d \in Ids :
        /\ dispatches[d].status = "threw"
        /\ Len(dispatches[d].invoked) = 1
        /\ dispatches[d].invoked[1].fn = "reject"
        /\ dispatches[d].outcome = Err("boom")

\* C7: the failure value alone tells which step of call() failed: two failed
\* dispatches with the same failure value failed at the same step.
C7_KindsDistinguishable ==
    \A d, e \in Ids :
        (/\ dispatches[d].status = "threw"
         /\ dispatches[e].status = "threw"
         /\ dispatches[d].outcome = dispatches[e].outcome)
        => dispatches[d].steps = dispatches[e].steps

\* C8: the token generator never returns a token equal to one that is still
\* outstanding: two pending calls never hold the same token.
C8_TokensUnique ==
    \A c, e \in Ids :
        (c # e /\ calls[c].status = "pending" /\ calls[e].status = "pending")
        => calls[c].token # calls[e].token

\* C9: call() leaves the registry unchanged: every step of a dispatch, whether
\* it fails or succeeds, keeps the registry as it was.
C9_RegistryUnchanged == [][dispatches' # dispatches => registry' = registry]_vars

C9_Witness ==
    \E d, e \in Ids :
        /\ dispatches[d].status = "returned"
        /\ dispatches[e].status = "threw"
        /\ registry # <<>>

\* C10: with the README's receiver loop and sendToOne, a pending call whose
\* envelope was dispatched successfully is eventually resolved.
C10_EventuallyResolved ==
    \A c \in Ids : \A d \in Ids :
        (/\ calls[c].status = "pending"
         /\ dispatches[d].status = "returned"
         /\ dispatches[d].msg = PayloadEncode(<<Str(calls[c].name),
                                                Str(calls[c].token), calls[c].input>>))
        ~> (calls[c].status = "resolved")

\* C11: the receiver loop routes no response back for a dispatch whose
\* inbound envelope carries the empty token: finishing such a dispatch emits
\* nothing to the caller.
C11_Step ==
    \A d \in Ids :
        (/\ dispatches[d].status = "awaiting"
         /\ dispatches'[d].status # "awaiting"
         /\ TokenOf(dispatches[d].msg) = "")
        => toClient' = toClient

C11_NoResponseForEmptyToken == [][C11_Step]_vars

\* C12: the function made by realize(decl)(send), invoked with input, calls
\* send once with decl's name, the token generator and the input as given;
\* it takes no token itself, and it resolves to what send resolved to and
\* fails with what send failed with, whatever the declared output shape.
C12_WrapperDelegates ==
    \A c \in Ids :
        wrappers[c].status # "idle" =>
            /\ wrappers[c].sent = <<[name |-> wrappers[c].decl.name,
                                     makeToken |-> "uuid",
                                     input |-> wrappers[c].input]>>
            /\ wrappers[c].made = SenderTokens(wrappers[c].send)
            /\ wrappers[c].status = "resolved" =>
                  /\ wrappers[c].settle = Resolved(wrappers[c].value)
                  /\ Resolved(wrappers[c].value) \in SendOutcomes(wrappers[c].send)
            /\ wrappers[c].status = "rejected" =>
                  /\ wrappers[c].settle = Rejected(wrappers[c].value)
                  /\ Rejected(wrappers[c].value) \in SendOutcomes(wrappers[c].send)

C12_Witness ==
    /\ \E c \in Ids :
          /\ wrappers[c].status = "resolved"
          /\ wrappers[c].decl = Add
          /\ wrappers[c].send = "sendToOne"
          /\ wrappers[c].value = Str("x")
    /\ \E c \in Ids :
          /\ wrappers[c].status = "rejected"
          /\ wrappers[c].send = "sendFailing"
          /\ wrappers[c].made = 0

\* the registrations made by the load() call of this step
Loaded == SubSeq(registrations', Len(registrations) + 1, Len(registrations'))

\* the last registration in loader under name n
LastFor(loader, n) ==
    loader[CHOOSE i \in DOMAIN loader :
              /\ loader[i].decl.name = n
              /\ \A j \in DOMAIN loader : loader[j].decl.name = n => j <= i]

\* C13: when load(loader) returns, each name the loader registered maps to
\* {declaration: decl(), handler: fn} of the loader's last registration under
\* that name (an earlier entry is replaced), and every other name is as it was.
C13_Step ==
    loads' = loads + 1 =>
        \A n \in DOMAIN registry \cup DOMAIN registry' \cup {d.name : d \in Decls} :
            IF \E i \in DOMAIN Loaded : Loaded[i].decl.name = n
            THEN /\ n \in DOMAIN registry'
                 /\ registry'[n].type = [i |-> LastFor(Loaded, n).decl.i,
                                         o |-> LastFor(Loaded, n).decl.o]
                 /\ registry'[n].fn = LastFor(Loaded, n).fn
            ELSE /\ (n \in DOMAIN registry') = (n \in DOMAIN registry)
                 /\ n \in DOMAIN registry => registry'[n] = registry[n]

C13_LoadRegisters == [][C13_Step]_vars

C13_Witness ==
    /\ loads = 2
    /\ Cardinality({i \in DOMAIN registrations : registrations[i].decl.name = "Add"}) >= 3
    /\ "ConvertToNumber" \in DOMAIN registry
    /\ "Add" \in DOMAIN registry
    /\ registry["ConvertToNumber"].fn = "parseFloat"
    /\ registry["Add"].type.i = "any"

\* C14: once load() has returned and the first dispatch has been issued, no
\* operation changes the set of registered names or the entry under a name.
C14_Step ==
    (loads >= 1 /\ \E d \in Ids : dispatches[d].status # "idle")
    => registry' = registry

C14_ImmutableAfterLoad == [][C14_Step]_vars

\* C15: of two dispatches with distinct tokens that are both suspended at
\* their handlers, whichever resumes first settles with its own envelope's
\* token and its own handler's result or failure, and leaves the other as it
\* was: still suspended, neither failed nor resolved by it.
C15_Step ==
    \A d, e \in Ids :
        (/\ d # e
         /\ dispatches[d].status = "awaiting"
         /\ dispatches[e].status = "awaiting"
         /\ dispatches[d].msg.elems[2].val # dispatches[e].msg.elems[2].val
         /\ dispatches'[d] # dispatches[d])
        => LET outs == HandlerOutcomes(dispatches[d].invoked[1].fn,
                                       dispatches[d].invoked[1].ctx,
                                       dispatches[d].invoked[1].input)
           IN /\ dispatches'[e] = dispatches[e]
              /\ dispatches'[d].status \in {"returned", "threw"}
              /\ dispatches'[d].status = "returned" =>
                    /\ dispatches'[d].outcome.token = dispatches[d].msg.elems[2].val
                    /\ Resolved(dispatches'[d].outcome.result) \in outs
              /\ dispatches'[d].status = "threw" =>
                    Rejected(dispatches'[d].outcome) \in outs

C15_Independent == [][C15_Step]_vars

C15_Witness ==
    /\ dispatches[1].status = "awaiting"
    /\ dispatches[2].status = "threw"
    /\ Len(dispatches[2].invoked) = 1
    /\ dispatches[1].msg.elems[2].val # dispatches[2].msg.elems[2].val
    /\ dispatches[1].invoked[1].fn = "add"

\* what the dispatch of the envelope of call c resolves to
OwnResults(c) ==
    {s \in HandlerOutcomes(registry[calls[c].name].fn, CHOOSE x \in Ctxs : TRUE,
                           calls[c].input) : s.settled = "resolved"}

C16_OwnResultUnlessCollision ==
    \A c \in Ids :
        (/\ calls[c].status = "resolved"
         /\ \A e \in Ids : (e # c /\ calls[e].status # "idle")
                              => calls[e].token # calls[c].token)
        => Resolved(calls[c].value) \in OwnResults(c)

\* C17: call() suspends only at the handler invocation: the step in which it
\* is invoked either fails or has decoded, looked up, validated and started
\* the handler the registry held under that name at that instant; a dispatch
\* is never suspended anywhere else, and a later change of the registry does
\* not touch a suspended dispatch.
C17_Step ==
    \A d \in Ids :
        /\ Starts(d) =>
              /\ dispatches'[d].status \in {"threw", "awaiting"}
              /\ registry' = registry
              /\ dispatches'[d].status = "awaiting" =>
                    /\ dispatches'[d].steps = <<"decode", "lookup", "validate", "invoke">>
                    /\ Len(dispatches'[d].invoked) = 1
                    /\ dispatches'[d].msg.elems[1].val \in DOMAIN registry
                    /\ dispatches'[d].invoked[1].fn =
                          registry[dispatches'[d].msg.elems[1].val].fn
        /\ dispatches'[d].status \in {"awaiting", "returned"} =>
              dispatches'[d].steps = <<"decode", "lookup", "validate", "invoke">>
        /\ (dispatches[d].status = "awaiting" /\ registry' # registry) =>
              dispatches'[d] = dispatches[d]

C17_SuspendsAtHandlerOnly == [][C17_Step]_vars

C17_Witness ==
    \E d \in Ids :
        /\ dispatches[d].status = "returned"
        /\ dispatches[d].msg.elems[1].val = "Add"
        /\ dispatches[d].invoked[1].fn = "add"
        /\ dispatches[d].outcome.result = Num(3)
        /\ registry["Add"].fn = "reject"

\* C18: a call() invokes at most one handler, at most once, and only when the
\* envelope decoded, the name is registered and the input decoded; the handler
\* gets the context of the call and the decoded input value, not the raw
\* payload; nothing is invoked for a dispatch that failed before the
\* invocation, and a dispatch that has been started is never started again.
C18_Step ==
    \A d \in Ids :
        /\ Len(dispatches'[d].invoked) <= 1
        /\ (Starts(d) /\ Len(dispatches'[d].invoked) = 1) =>
              LET msg == dispatches'[d].msg IN
              /\ ~PayloadDecode(msg).left
              /\ NameOf(msg) \in DOMAIN registry
              /\ ~IoDecode(registry[NameOf(msg)].type.i, ArgsOf(msg)).left
              /\ dispatches'[d].invoked[1] =
                    [fn    |-> registry[NameOf(msg)].fn,
                     ctx   |-> dispatches'[d].ctx,
                     input |-> IoDecode(registry[NameOf(msg)].type.i, ArgsOf(msg)).value]
        /\ (dispatches'[d].status = "threw"
              /\ dispatches'[d].steps # <<"decode", "lookup", "validate", "invoke">>) =>
              dispatches'[d].invoked = <<>>
        /\ dispatches[d].status # "idle" =>
              /\ dispatches'[d].invoked = dispatches[d].invoked
              /\ dispatches'[d].msg = dispatches[d].msg
              /\ dispatches'[d].ctx = dispatches[d].ctx
        /\ dispatches[d].status \in {"threw", "returned"} =>
              dispatches'[d] = dispatches[d]

C18_OneHandlerOnce == [][C18_Step]_vars

C18_Witness ==
    \E d \in Ids :
        /\ dispatches[d].status = "returned"
        /\ dispatches[d].ctx \in Ctxs
        /\ ArgsOf(dispatches[d].msg) = Str("1")
        /\ dispatches[d].invoked = <<[fn |-> "parseFloat", ctx |-> dispatches[d].ctx,
                                      input |-> Num(1)]>>
        /\ dispatches[d].outcome.result = Num(1)

\* the envelope msg with its token replaced by the string t
WithToken(msg, t) == [msg EXCEPT !.elems[2] = Str(t)]

\* msg is an array that carries a string in the token position
HasToken(msg) ==
    /\ msg.kind = "array"
    /\ Len(msg.elems) >= 2
    /\ msg.elems[2].kind = "string"

\* C19: the dispatcher does not interpret the token: when call() is invoked
\* with an envelope, the same envelope with any other token (empty or not),
\* against the same registry, takes the same steps, starts the same handler
\* with the same input and fails with the same error or, for every way the
\* handler settles, ends the same way with the same result; only the returned
\* token differs, and it is the token of the envelope.
C19_Step ==
    \A d \in Ids :
        /\ (Starts(d) /\ HasToken(dispatches'[d].msg)) =>
              \A t \in Tokens :
                 LET mine  == dispatches'[d]
                     other == CallSync(registry, mine.ctx, WithToken(mine.msg, t))
                 IN  /\ other.status = mine.status
                     /\ other.steps = mine.steps
                     /\ other.invoked = mine.invoked
                     /\ mine.status \in {"threw", "awaiting"}
                     /\ mine.status = "threw" => other.outcome = mine.outcome
                     /\ mine.status = "awaiting" =>
                           /\ mine.token = TokenOf(mine.msg)
                           /\ other.token = t
                           /\ \A s \in HandlerOutcomes(mine.invoked[1].fn,
                                                       mine.invoked[1].ctx,
                                                       mine.invoked[1].input) :
                                 LET r1 == CallResume(mine, s)
                                     r2 == CallResume(other, s)
                                 IN  /\ r1.status = r2.status
                                     /\ r1.status = "threw" => r1.outcome = r2.outcome
                                     /\ r1.status = "returned" =>
                                           /\ r1.outcome.result = r2.outcome.result
                                           /\ r1.outcome.token = mine.token
                                           /\ r2.outcome.token = t
        /\ (dispatches[d].status = "awaiting" /\ dispatches'[d].status = "returned") =>
              /\ dispatches'[d].settle \in HandlerOutcomes(dispatches[d].invoked[1].fn,
                                                           dispatches[d].invoked[1].ctx,
                                                           dispatches[d].invoked[1].input)
              /\ dispatches'[d].outcome = [token  |-> TokenOf(dispatches[d].msg),
                                           result |-> dispatches'[d].settle.value]

C19_TokenNotInterpreted == [][C19_Step]_vars

C19_Witness ==
    \E d, e \in Ids :
        /\ dispatches[d].status = "returned"
        /\ dispatches[e].status = "returned"
        /\ dispatches[d].msg = Arr(<<Str("Add"), Str(""), Obj(Num(1), Num(2))>>)
        /\ dispatches[e].msg = Arr(<<Str("Add"), Str("tok1"), Obj(Num(1), Num(2))>>)
        /\ dispatches[d].invoked = dispatches[e].invoked
        /\ dispatches[d].outcome = [token |-> "", result |-> Num(3)]
        /\ dispatches[e].outcome = [token |-> "tok1", result |-> Num(3)]

====
